---- MODULE Spec2Model ----
(***************************************************************************)
(* CurveAnalysis (src/CurveAnalysis/fda_feature.py): an ensemble of        *)
(* multivariate curves with its smoothing / scaling flags, its derivative  *)
(* grids, and the three geometric features computed from them.             *)
(*                                                                         *)
(* Numbers.  The program works on floats; the model works on exact         *)
(* numbers.  Derivative grids and the velocity / arc-length results are    *)
(* integers.  A cell of a coordinate grid or of a returned feature grid is *)
(* a record [n, r, d] that stands for the real number n * sqrt(r) / d      *)
(* (d = 0 is numpy's nan), kept in a normal form so that two rational      *)
(* cells are equal exactly when the numbers are.                           *)
(*                                                                         *)
(* skfda.  Basis fitting, the grid search and differentiation belong to    *)
(* the skfda library and are not part of this program.  The model gives    *)
(* them the monomial basis: a fit is a coefficient array [series][basis],  *)
(* the smoothed grid and the derivative grids are its evaluations at the   *)
(* sample points, and which candidate strength wins a search is the        *)
(* library's choice (an input of the action).                              *)
(***************************************************************************)
EXTENDS Integers, Sequences, FiniteSets, TLC

\* Shape of the ensemble handed to the constructor: data_matrix is
\* [nSeries, nObs, nVar].
nSeries == 2
nObs == 3
nVar == 2
\* Candidate regularization strengths are 1..MaxStrength.
MaxStrength == 2

VARIABLES
    sample_points,           \* self.sample_points
    coordinates_grids,       \* self.coordinates_grids: one grid per variable
    smoothed,                \* self._smoothed
    scaled,                  \* self._scaled
    coordinates_grids_dx1,   \* self.coordinates_grids_dx1
    coordinates_grids_dx2,   \* self.coordinates_grids_dx2
    coefficients,            \* self.coefficients
    call,                    \* the last method call and its arguments
    exc,                     \* the exception it raised, NoExc when it returned
    ret                      \* the value it returned

ensemble == <<sample_points, coordinates_grids, smoothed, scaled,
              coordinates_grids_dx1, coordinates_grids_dx2, coefficients>>
vars == <<sample_points, coordinates_grids, smoothed, scaled,
          coordinates_grids_dx1, coordinates_grids_dx2, coefficients,
          call, exc, ret>>

----------------------------------------------------------------------------
\* Exact arithmetic.

Abs(x) == IF x < 0 THEN -x ELSE x

RECURSIVE GCD(_, _)
GCD(a, b) == IF b = 0 THEN a ELSE GCD(b, a % b)

RECURSIVE Newton(_, _)
Newton(x, g) ==
    LET h == (g + x \div g) \div 2 IN IF h >= g THEN g ELSE Newton(x, h)
\* The square root of a perfect square; its floor in general.
ISqrt(x) == IF x = 0 THEN 0 ELSE Newton(x, x)
IsSquare(x) == ISqrt(x) * ISqrt(x) = x

RECURSIVE SumTo(_, _)
SumTo(s, n) == IF n = 0 THEN 0 ELSE s[n] + SumTo(s, n - 1)
Sum(s) == SumTo(s, Len(s))

RECURSIVE Pow(_, _)
Pow(b, e) == IF e = 0 THEN 1 ELSE b * Pow(b, e - 1)

\* n * sqrt(r) / d in normal form (r >= 0, d >= 0).
Nan == [n |-> 0, r |-> 1, d |-> 0]
Rat(n, d) ==
    IF d = 0 THEN Nan
    ELSE LET g == GCD(Abs(n), d) IN [n |-> n \div g, r |-> 1, d |-> d \div g]
Surd(n, r, d) ==
    IF d = 0 THEN Nan
    ELSE IF n = 0 \/ r = 0 THEN Rat(0, 1)
    ELSE IF IsSquare(r) THEN Rat(n * ISqrt(r), d)
    ELSE LET g == GCD(Abs(n), d) IN [n |-> n \div g, r |-> r, d |-> d \div g]
Real(x) == Rat(x, 1)

----------------------------------------------------------------------------
\* What the calls exchange.

NoExc == "none"
NameError == "NameError: name 'basis' is not defined"
SmootherCountError == "ValueError: number of smoothers must be equal to the number of variable or equal to 1"
AxisError == "ValueError: axis should be either 0 or 1"
IndexError == "IndexError"
EmptyGridError == "ValueError: empty parameter grid"
BasisSizeError == "ValueError: more basis functions than points"

None == [data_matrix |-> <<>>, sample_points |-> <<>>, dataset_label |-> "",
         history |-> <<>>]
FDataGrid(data_matrix, points, label) ==
    [data_matrix |-> data_matrix, sample_points |-> points,
     dataset_label |-> label, history |-> <<>>]

Raise(self, e) == [self |-> self, exc |-> e, ret |-> None]
Return(self, r) == [self |-> self, exc |-> NoExc, ret |-> r]

\* Arguments.  param_values and smoother default to Python's None.
Strengths == 1 .. MaxStrength
NoParamValues == [given |-> FALSE, values |-> <<>>]
ParamValues(values) == [given |-> TRUE, values |-> values]
NoSmoother == [kind |-> "none", items |-> <<>>]
OneSmoother(b) == [kind |-> "single", items |-> <<b>>]
SmootherList(bs) == [kind |-> "list", items |-> bs]

----------------------------------------------------------------------------
\* skfda, as far as the program uses it.

\* A BasisSmoother is known by the size of its basis.
BasisSizes == {nObs, nObs + 1}
BasisSmoother(n) == [n_basis |-> n]

\* The curve of variable j, series i that strength lam yields: coefficient m
\* of 1, t, t^2, ...  When the variables share a strength the curve runs
\* along the direction 3 : 4 : 12 (norms 5 and 13) at an even speed.
Weight(j) == CASE j = 1 -> 3 [] j = 2 -> 4 [] j = 3 -> 12 [] OTHER -> 0
Coef(lam, j, i, m) ==
    Weight(j) * (CASE m = 0 -> i
                   [] m = 1 -> 2 * lam
                   [] m = 2 -> MaxStrength - lam
                   [] OTHER -> 0)
\* FDataBasis.coefficients of one variable: [series][basis function].
CoefficientArray(lam, j, n_basis) ==
    [i \in 1 .. nSeries |-> [m \in 1 .. n_basis |-> Coef(lam, j, i, m - 1)]]
\* Every fit, tabulated once.
FitTable ==
    [lam \in 1 .. MaxStrength |-> [j \in 1 .. nVar |-> [n_basis \in BasisSizes |->
        CoefficientArray(lam, j, n_basis)]]]
FitCoefficients(lam, j, n_basis) == FitTable[lam][j][n_basis]

RECURSIVE Falling(_, _)
\* m (m-1) ... (m-order+1)
Falling(m, order) == IF order = 0 THEN 1 ELSE m * Falling(m - 1, order - 1)
RECURSIVE PolyFrom(_, _, _, _)
PolyFrom(c, order, t, m) ==
    IF m > Len(c) - 1 THEN 0
    ELSE Falling(m, order) * c[m + 1] * Pow(t, m - order)
         + PolyFrom(c, order, t, m + 1)
\* The order-th derivative of sum c[m+1] t^m at t.
derivative(c, order, t) == PolyFrom(c, order, t, order)
\* Integers as cells of a coordinate grid.
Cells(m) == [i \in 1 .. Len(m) |-> [k \in 1 .. Len(m[i]) |-> Real(m[i][k])]]
Evaluate(coefs, order, points) ==
    [i \in 1 .. Len(coefs) |->
        [k \in 1 .. Len(points) |-> derivative(coefs[i], order, points[k])]]
\* Sample points: unit-spaced 0, 1, 2, ... and unevenly spaced 0, 1, 3, 6, ...
UnitDomain == [k \in 1 .. nObs |-> k - 1]
UnevenDomain == [k \in 1 .. nObs |-> ((k - 1) * k) \div 2]
Domains == {UnitDomain, UnevenDomain}
\* Every fit at the sample points, tabulated once.
GridTable ==
    [points \in Domains |->
        [coefs \in {FitTable[lam][j][n] :
                        lam \in 1 .. MaxStrength, j \in 1 .. nVar, n \in BasisSizes} |->
            [order \in 0 .. 2 |-> Evaluate(coefs, order, points)]]]
CellTable ==
    [points \in Domains |->
        [coefs \in DOMAIN GridTable[points] |-> Cells(GridTable[points][coefs][0])]]
\* FDataBasis.derivative(order).to_grid(points).data_matrix[:, :, 0]
to_grid(coefs, order, points) == GridTable[points][coefs][order]
\* BasisSmoother.fit_transform(data_grid).data_matrix[:, :, 0]
fit_transform(coefs, points) == CellTable[points][coefs]

\* FDataGrid.to_basis is an unpenalized least-squares projection: it raises
\* when the basis has more functions than there are sample points, and
\* otherwise recovers the coefficients of a grid that lies in the basis.
to_basis_raises(smoother) == smoother.n_basis > nObs

\* A perfect square with an even root: the norm below and the halves of the
\* trapezoid rule are exact on it.
EvenSquare(x) == IsSquare(x) /\ ISqrt(x) % 2 = 0
SumSq(x) == Sum([j \in 1 .. Len(x) |-> x[j] * x[j]])
Column(M, k) == [j \in 1 .. Len(M) |-> M[j][k]]
Series(grids, i) == [j \in 1 .. Len(grids) |-> grids[j][i]]
\* The strengths lam[1..nVar] whose curves have derivative vectors of exact
\* norm at every sample point.
ExactNorms(lam, points) ==
    \A order \in {1, 2} : \A i \in 1 .. nSeries : \A k \in 1 .. Len(points) :
        EvenSquare(SumSq([j \in 1 .. nVar |->
            derivative(FitCoefficients(lam[j], j, nObs)[i], order, points[k])]))
ExactStrengths ==
    [points \in Domains |->
        {lam : lam \in {l \in [1 .. nVar -> 1 .. MaxStrength] : ExactNorms(l, points)}}]
\* grid_search.best_estimator_ of each variable: the library's choice among
\* the candidates.
Winners(values, points) ==
    IF values = <<>> THEN {[j \in 1 .. nVar |-> 0]}
    ELSE {lam \in ExactStrengths[points] :
            \A j \in 1 .. nVar : \E c \in 1 .. Len(values) : lam[j] = values[c]}
\* np.logspace(-8, 8, num=100): every strength.
DefaultParamValues == [c \in 1 .. MaxStrength |-> c]

----------------------------------------------------------------------------
\* The feature functions.  DX1 and DX2 are [variable][observation].

\* numpy.linalg.norm of a vector
norm(x) == ISqrt(SumSq(x))

_calculate_velocity(DX1) ==
    [k \in 1 .. Len(DX1[1]) |-> norm(Column(DX1, k))]

\* scipy.integrate.cumtrapz(y) with its default spacing dx = 1
cumtrapz(y) ==
    [k \in 1 .. Len(y) - 1 |->
        Sum([i \in 1 .. k |-> (y[i] + y[i + 1]) \div 2])]

\* The arc length without its leading 0.
_calculate_arc_length_NoOrigin(DX1, t) == cumtrapz(_calculate_velocity(DX1))
_calculate_arc_length(DX1, t) ==
    LET v == _calculate_velocity(DX1)
    IN  <<0>> \o cumtrapz(v)

norm2(x) == norm(x) * norm(x)
dot(x, y) == Sum([j \in 1 .. Len(x) |-> x[j] * y[j]])

_calculate_curvature(DX1, DX2) ==
    LET n == Len(DX1[1])
        res == [k \in 1 .. n |->
                   norm2(Column(DX1, k)) * norm2(Column(DX2, k))
                   - dot(Column(DX1, k), Column(DX2, k))
                     * dot(Column(DX1, k), Column(DX2, k))]
    IN  [k \in 1 .. n |-> Surd(1, Abs(res[k]), Pow(norm(Column(DX1, k)), 3))]

----------------------------------------------------------------------------
\* CurveAnalysis.  A method is an operator from the object (and the call's
\* arguments) to [self, exc, ret]: the object it leaves, what it raised, what
\* it returned.

Self ==
    [sample_points |-> sample_points,
     coordinates_grids |-> coordinates_grids,
     smoothed |-> smoothed,
     scaled |-> scaled,
     coordinates_grids_dx1 |-> coordinates_grids_dx1,
     coordinates_grids_dx2 |-> coordinates_grids_dx2,
     coefficients |-> coefficients]

\* A count check that lets a list that is too long through.
SmootherCountAtLeast(n) == n >= nVar
\* len(smoother) != self._nVar, negated
SmootherCountOk(n) == n = nVar

\* winner[j] is the strength of variable j's grid_search.best_estimator_.
smooth_grids(self, param_values, smoother, return_history, winner) ==
    LET values == IF param_values.given THEN param_values.values
                  ELSE DefaultParamValues
    IN
    IF smoother.kind = "none" THEN
        \* BasisSmoother(basis, ...): no name basis is bound
        Raise(self, NameError)
    ELSE IF smoother.kind = "list" /\ ~SmootherCountOk(Len(smoother.items)) THEN
        Raise(self, SmootherCountError)
    ELSE
        LET smoothers == IF smoother.kind = "list" THEN smoother.items
                         ELSE [j \in 1 .. nVar |-> smoother.items[1]]
        IN
        IF values = <<>> THEN
            \* the search of the first variable has nothing to fit
            Raise(self, EmptyGridError)
        ELSE
            LET fitted == [j \in 1 .. nVar |->
                              FitCoefficients(winner[j], j, smoothers[j].n_basis)]
                smoothed_grids == [j \in 1 .. nVar |->
                    fit_transform(fitted[j], self.sample_points)]
                history == [j \in 1 .. nVar |-> values]
                bad == {j \in 1 .. nVar : to_basis_raises(smoothers[j])}
                \* the variables the second loop completes
                done == IF bad = {} THEN nVar
                        ELSE (CHOOSE j \in bad : \A l \in bad : j <= l) - 1
                after == [self EXCEPT
                    !.coordinates_grids = smoothed_grids,
                    !.smoothed = TRUE,
                    !.coordinates_grids_dx1 = [j \in 1 .. done |->
                        to_grid(fitted[j], 1, self.sample_points)],
                    !.coordinates_grids_dx2 = [j \in 1 .. done |->
                        to_grid(fitted[j], 2, self.sample_points)],
                    !.coefficients = [j \in 1 .. done |-> fitted[j]]]
            IN
            IF bad # {} THEN Raise(after, BasisSizeError)
            ELSE IF return_history THEN Return(after, [None EXCEPT !.history = history])
            ELSE Return(after, None)

\* One row or column of a grid, centred (and divided by its standard
\* deviation): x holds integer cells.
_scale(x, with_std) ==
    LET n == Len(x)
        xi == [k \in 1 .. n |-> x[k].n]
        total == Sum(xi)
        q == n * SumSq(xi) - total * total
    IN  IF with_std
        THEN [k \in 1 .. n |-> Surd(n * xi[k] - total, q, q)]
        ELSE [k \in 1 .. n |-> Rat(n * xi[k] - total, n)]

\* grid.data_matrix.shape[axis], for -3 <= axis <= 2
ShapeAt(grid, axis) ==
    LET shape == <<Len(grid), Len(grid[1]), 1>>
    IN  IF axis >= 0 THEN shape[axis + 1] ELSE shape[axis + 4]
\* grid.data_matrix[i, :, 0] = _scale(...) for i < count
ScaleRows(grid, count, with_std) ==
    [i \in 1 .. Len(grid) |->
        IF i <= count THEN _scale(grid[i], with_std) ELSE grid[i]]
\* grid.data_matrix[:, i, 0] = _scale(...) for i < count
ScaleColumns(grid, count, with_std) ==
    [i \in 1 .. Len(grid) |-> [k \in 1 .. Len(grid[i]) |->
        IF k <= count
        THEN _scale([l \in 1 .. Len(grid) |-> grid[l][k]], with_std)[i]
        ELSE grid[i][k]]]

\* scale_grids from its axis check on
scale_unscaled(self, axis, with_std) ==
    IF axis > 1 THEN Raise(self, AxisError)
    ELSE IF axis < -3 THEN
        \* shape[axis] of the first grid
        Raise(self, IndexError)
    ELSE
        LET grids == self.coordinates_grids
            count == ShapeAt(grids[1], axis)
        IN
        IF axis = 0 THEN
            Return([self EXCEPT
                !.coordinates_grids = [j \in 1 .. Len(grids) |->
                    ScaleRows(grids[j], count, with_std)],
                !.scaled = TRUE], None)
        ELSE IF count > nObs THEN
            \* column nObs of the first grid does not exist
            Raise([self EXCEPT
                !.coordinates_grids = [j \in 1 .. Len(grids) |->
                    IF j = 1 THEN ScaleColumns(grids[j], nObs, with_std)
                    ELSE grids[j]]], IndexError)
        ELSE
            Return([self EXCEPT
                !.coordinates_grids = [j \in 1 .. Len(grids) |->
                    ScaleColumns(grids[j], count, with_std)],
                !.scaled = TRUE], None)

\* scale_grids without its already-scaled guard.
scale_grids_Unguarded(self, axis, with_std) == scale_unscaled(self, axis, with_std)
scale_grids(self, axis, with_std) ==
    IF self.scaled THEN Return(self, None)
    ELSE scale_unscaled(self, axis, with_std)

\* if not self._smoothed: _ = self.smooth_grids()
EnsureSmoothed(self, winner) ==
    IF ~self.smoothed
    THEN smooth_grids(self, NoParamValues, NoSmoother, FALSE, winner)
    ELSE Return(self, None)

compute_velocity(self, winner) ==
    LET pre == EnsureSmoothed(self, winner)
        dx1 == pre.self.coordinates_grids_dx1
    IN  IF pre.exc # NoExc THEN Raise(pre.self, pre.exc)
        ELSE IF Len(dx1) < nVar THEN Raise(pre.self, IndexError)
        ELSE Return(pre.self, FDataGrid(
                [i \in 1 .. nSeries |->
                    LET row == _calculate_velocity(Series(dx1, i))
                    IN  [k \in 1 .. nObs |-> Real(row[k])]],
                pre.self.sample_points, "velocity"))

compute_arc_length(self, winner) ==
    LET pre == EnsureSmoothed(self, winner)
        dx1 == pre.self.coordinates_grids_dx1
    IN  IF pre.exc # NoExc THEN Raise(pre.self, pre.exc)
        ELSE IF Len(dx1) < nVar THEN Raise(pre.self, IndexError)
        ELSE Return(pre.self, FDataGrid(
                [i \in 1 .. nSeries |->
                    LET row == _calculate_arc_length(Series(dx1, i),
                                                     pre.self.sample_points)
                    IN  [k \in 1 .. Len(row) |-> Real(row[k])]],
                pre.self.sample_points, "arc_length"))

compute_curvature(self, winner) ==
    LET pre == EnsureSmoothed(self, winner)
        dx1 == pre.self.coordinates_grids_dx1
        dx2 == pre.self.coordinates_grids_dx2
    IN  IF pre.exc # NoExc THEN Raise(pre.self, pre.exc)
        ELSE IF Len(dx1) < nVar \/ Len(dx2) < nVar THEN Raise(pre.self, IndexError)
        ELSE Return(pre.self, FDataGrid(
                [i \in 1 .. nSeries |->
                    _calculate_curvature(Series(dx1, i), Series(dx2, i))],
                pre.self.sample_points, "curvature"))

----------------------------------------------------------------------------
\* The object's life: the constructor, then any method in any order.

ParamInputs ==
    {NoParamValues} \cup
    {ParamValues(v) : v \in {w \in UNION {[1 .. n -> Strengths] : n \in 0 .. MaxStrength} :
                                 \A a, b \in 1 .. Len(w) : a < b => w[a] < w[b]}}
SmootherInputs ==
    {NoSmoother} \cup
    {OneSmoother(BasisSmoother(b)) : b \in BasisSizes} \cup
    {SmootherList([j \in 1 .. nVar |->
                      BasisSmoother(IF j < first THEN nObs ELSE nObs + 1)]) :
         first \in 1 .. nVar + 1} \cup
    {SmootherList([j \in 1 .. n |-> BasisSmoother(nObs)]) : n \in {nVar - 1, nVar + 1}}
Axes == -4 .. 3

\* What is kept of a call: the method, the kind and count of the smoothers
\* handed to smooth_grids, the axis handed to scale_grids.
Call(op, smoother, axis) ==
    [op |-> op, smoother |-> smoother.kind, count |-> Len(smoother.items),
     axis |-> axis]

\* __init__(grid, smoothed): the grid samples one curve of the family per
\* variable; with smoothed=True the derivative grids are grid.derivative().
Init ==
    \E points \in Domains, flag \in BOOLEAN : \E lam \in ExactStrengths[points] :
        LET raw == [j \in 1 .. nVar |-> FitCoefficients(lam[j], j, nObs)]
        IN  /\ sample_points = points
            /\ coordinates_grids = [j \in 1 .. nVar |-> fit_transform(raw[j], points)]
            /\ smoothed = flag
            /\ coordinates_grids_dx1 =
                   IF flag THEN [j \in 1 .. nVar |-> to_grid(raw[j], 1, points)]
                   ELSE <<>>
            /\ coordinates_grids_dx2 =
                   IF flag THEN [j \in 1 .. nVar |-> to_grid(raw[j], 2, points)]
                   ELSE <<>>
            /\ coefficients = <<>>
            /\ scaled = FALSE
            /\ call = Call("__init__", NoSmoother, 0)
            /\ exc = NoExc
            /\ ret = None

Do(c, out) ==
    /\ call' = c
    /\ exc' = out.exc
    /\ ret' = out.ret
    /\ sample_points' = out.self.sample_points
    /\ coordinates_grids' = out.self.coordinates_grids
    /\ smoothed' = out.self.smoothed
    /\ scaled' = out.self.scaled
    /\ coordinates_grids_dx1' = out.self.coordinates_grids_dx1
    /\ coordinates_grids_dx2' = out.self.coordinates_grids_dx2
    /\ coefficients' = out.self.coefficients

SmoothGrids ==
    \E pv \in ParamInputs :
        \E winner \in Winners(IF pv.given THEN pv.values ELSE DefaultParamValues,
                              sample_points) :
            \E sm \in SmootherInputs, rh \in BOOLEAN :
                LET out == smooth_grids(Self, pv, sm, rh, winner)
                IN  Do(Call("smooth_grids", sm, 0), out)

ScaleGrids ==
    \E axis \in Axes, with_std \in BOOLEAN :
        LET out == scale_grids(Self, axis, with_std)
        IN  Do(Call("scale_grids", NoSmoother, axis), out)

ComputeVelocity ==
    \E winner \in Winners(DefaultParamValues, sample_points) :
        LET out == compute_velocity(Self, winner)
        IN  Do(Call("compute_velocity", NoSmoother, 0), out)

ComputeArcLength ==
    \E winner \in Winners(DefaultParamValues, sample_points) :
        LET out == compute_arc_length(Self, winner)
        IN  Do(Call("compute_arc_length", NoSmoother, 0), out)

ComputeCurvature ==
    \E winner \in Winners(DefaultParamValues, sample_points) :
        LET out == compute_curvature(Self, winner)
        IN  Do(Call("compute_curvature", NoSmoother, 0), out)

Next ==
    \/ SmoothGrids
    \/ ScaleGrids
    \/ ComputeVelocity
    \/ ComputeArcLength
    \/ ComputeCurvature

Spec == Init /\ [][Next]_vars

----------------------------------------------------------------------------
\* The claims.

ComputeOps == {"compute_velocity", "compute_arc_length", "compute_curvature"}
\* ret is an nSeries x nObs feature grid.
ReturnsFeatureGrid(r) ==
    /\ Len(r.data_matrix) = nSeries
    /\ \A i \in 1 .. nSeries : Len(r.data_matrix[i]) = nObs
IsInteger(cell) == cell.r = 1 /\ cell.d = 1

\* C1: a feature call on an ensemble that is not smoothed runs the default
\* smoothing pass, returns the feature grid and leaves Smoothed true; it
\* does not fail.
C1_LazyDefaultSmoothing ==
    [][(call'.op \in ComputeOps /\ ~smoothed)
        => (exc' = NoExc /\ smoothed' /\ ReturnsFeatureGrid(ret'))]_vars

\* C2: smooth_grids with a list of smoothers whose length is not nVar raises
\* the count error and leaves every field of the ensemble as it was.
C2_SmootherCountFailsFast ==
    [][(call'.op = "smooth_grids" /\ call'.smoother = "list" /\ call'.count # nVar)
        => (exc' = SmootherCountError /\ UNCHANGED ensemble)]_vars
C2_Witness ==
    /\ call.op = "smooth_grids" /\ call.smoother = "list" /\ call.count # nVar
    /\ exc = SmootherCountError
    /\ smoothed /\ scaled /\ Len(coefficients) = nVar

\* C3: once the ensemble is scaled it stays scaled, and a scale_grids call
\* on it (any axis, any with_std) returns None without error and changes
\* nothing.
C3_RescaleIsNoOp ==
    [][/\ scaled => scaled'
       /\ (call'.op = "scale_grids" /\ scaled)
            => (exc' = NoExc /\ ret' = None /\ UNCHANGED ensemble)]_vars
\* A call with axis 2 that returned: only the guard returns on that axis.
C3_Witness ==
    call.op = "scale_grids" /\ call.axis > 1 /\ exc = NoExc /\ scaled

\* C4: scale_grids on an ensemble not yet scaled fails for every axis other
\* than 0 and 1 and then leaves the coordinate grids and the scaled flag as
\* they were.
C4_BadAxisRejected ==
    [][(call'.op = "scale_grids" /\ ~scaled /\ call'.axis \notin {0, 1})
        => (/\ exc' # NoExc
            /\ coordinates_grids' = coordinates_grids
            /\ scaled' = scaled)]_vars

\* C5: smooth_grids on an ensemble that is already smoothed leaves the
\* coordinate grids, the coefficients and the derivative grids as they were.
C5_ResmoothIsNoOp ==
    [][(call'.op = "smooth_grids" /\ smoothed)
        => (/\ coordinates_grids' = coordinates_grids
            /\ coefficients' = coefficients
            /\ coordinates_grids_dx1' = coordinates_grids_dx1
            /\ coordinates_grids_dx2' = coordinates_grids_dx2)]_vars

\* C6: in every reachable state, Smoothed implies that the first- and the
\* second-derivative list each hold nVar grids.
C6_DerivativesComplete ==
    smoothed => /\ Len(coordinates_grids_dx1) = nVar
                /\ Len(coordinates_grids_dx2) = nVar

\* The cumulative trapezoid integral of v over the points t, up to t[k].
TrapezoidOver(v, t, k) ==
    Sum([l \in 1 .. k - 1 |-> ((v[l] + v[l + 1]) * (t[l + 1] - t[l])) \div 2])

\* C7: every entry of the arc length that compute_arc_length returns is the
\* cumulative trapezoid integral of the velocity over the sample points.
C7_ArcLengthOverDomain ==
    (call.op = "compute_arc_length" /\ exc = NoExc)
        => \A i \in 1 .. nSeries : \A k \in 1 .. nObs :
               ret.data_matrix[i][k] =
                   Real(TrapezoidOver(
                       _calculate_velocity(Series(coordinates_grids_dx1, i)),
                       sample_points, k))

\* C8: every arc-length row that compute_arc_length returns has nObs
\* entries, starts at 0 and never decreases.
C8_ArcLengthRows ==
    (call.op = "compute_arc_length" /\ exc = NoExc)
        => /\ Len(ret.data_matrix) = nSeries
           /\ \A i \in 1 .. Len(ret.data_matrix) :
                  LET row == ret.data_matrix[i]
                  IN  /\ Len(row) = nObs
                      /\ row[1] = Real(0)
                      /\ \A k \in 1 .. Len(row) - 1 :
                             /\ IsInteger(row[k]) /\ IsInteger(row[k + 1])
                             /\ row[k].n <= row[k + 1].n
\* A returned row that grows along the domain.
C8_Witness ==
    /\ call.op = "compute_arc_length" /\ exc = NoExc
    /\ \E i \in 1 .. nSeries : \E k \in 1 .. nObs - 1 :
           ret.data_matrix[i][k].n < ret.data_matrix[i][k + 1].n

\* C10: a feature call on an ensemble whose Smoothed flag is true changes
\* no field of the ensemble and returns an nSeries x nObs grid.
C10_FeaturesReadOnly ==
    [][(call'.op \in ComputeOps /\ smoothed)
        => (UNCHANGED ensemble /\ exc' = NoExc /\ ReturnsFeatureGrid(ret'))]_vars

====
